---- MODULE Spec2Model ----
(***************************************************************************)
(* Model of the earthquake sonifier hook (useEarthquakeSonifier) of        *)
(* src/src/EarthquakeCanvas.tsx: the session lifecycle (start / stop /     *)
(* disposal), the timeline scheduler, the drone's parameter automation,    *)
(* the live transient set and the wall-clock timers.                       *)
(*                                                                         *)
(* Units.  Times are integer milliseconds (audio-clock and wall-clock).    *)
(* Gains are in 1/10000, pan in 1/1000, frequencies in Hz, detune in       *)
(* cents.  The code computes in IEEE doubles; the model computes the same  *)
(* expressions over integers with flooring division.                       *)
(***************************************************************************)
EXTENDS Integers, Sequences, FiniteSets, TLC

(***************************************************************************)
(* Bounds of the model.                                                    *)
(***************************************************************************)
MaxScanLen  == 3      \* longest event collection of the timeline runs (TimelineSpec)
MaxCalls    == 3      \* lifecycle calls (start, stop, disposal) per behaviour
MaxClock    == 3000   \* an idle session's wall clock stops advancing here

(***************************************************************************)
(* Program constants.                                                      *)
(***************************************************************************)
BASE_GAIN        == 1200   \* 0.12
StartOffsetMs    == 500    \* startOffset = 0.5 s
FadeInMs         == 3000
EndTailMs        == 3000   \* "+ 3" of estimatedEnd
EndFadeMs        == 3000
StopFadeMs       == 1500
OscStopMs        == 2000
GainPeakMs       == 400
GainBackMs       == 3000
FilterPeakMs     == 700
FilterBackMs     == 4000
PanPeakMs        == 500
PanBackMs        == 2500
DetunePeakMs     == 1000
DetuneBackMs     == 5000
NoiseStopMs      == 250
ClickStopMs      == 200
BaseCutoff       == 1800
BasePan          == 0
DetuneRangeCents == 120
NumOscs          == 3
NaN              == -999999   \* stands for the IEEE not-a-number

\* One render quantum of the audio clock (128 frames at 44.1 kHz), in ms:
\* the step by which ctx.currentTime can advance between two reads.
RenderQuantumMs  == 3
\* How far one Tick moves the clocks.
TickMs           == 3000

Max(a, b) == IF a >= b THEN a ELSE b
Min(a, b) == IF a <= b THEN a ELSE b
Abs(a)    == IF a < 0 THEN -a ELSE a

RECURSIVE Gcd(_, _)
Gcd(a, b) == IF b = 0 THEN Abs(a) ELSE Gcd(b, Abs(a) % Abs(b))

\* Flooring division, defined for a divisor of either sign.
Div(a, b) == IF b > 0 THEN a \div b ELSE (-a) \div (-b)

Range(s) == {s[i] : i \in 1..Len(s)}

(***************************************************************************)
(* mapRange                                                                *)
(***************************************************************************)
\* Mutant: the value interpolated as it comes, not clamped to the input range.
MapRangeNoClamp(value, inMin, inMax, outMin, outMax) ==
    IF value = NaN THEN outMin
    ELSE IF inMax = inMin THEN outMin
         ELSE outMin + Div((value - inMin) * (outMax - outMin), inMax - inMin)

MapRange(value, inMin, inMax, outMin, outMax) ==
    IF value = NaN THEN outMin
    ELSE LET clamped == Min(inMax, Max(inMin, value))
         IN  IF inMax = inMin THEN outMin
             ELSE outMin + Div((clamped - inMin) * (outMax - outMin), inMax - inMin)

\* Math.max(0, Math.min(7, mag || 0))
MagClamped(mag) == Max(0, Min(7, IF mag = NaN THEN 0 ELSE mag))
\* Math.max(0, Math.min(700, depthKm || 0))
DepthClamped(depthKm) == Max(0, Min(700, IF depthKm = NaN THEN 0 ELSE depthKm))

(***************************************************************************)
(* AudioParam automation timelines: a sequence of events                   *)
(* [time, value, kind, src] kept sorted by time.  src is a history tag     *)
(* naming the statement that laid the event down.                          *)
(***************************************************************************)
AutoEvent(time, value, kind, src) ==
    [time |-> time, value |-> value, kind |-> kind, src |-> src]

\* AudioParam.cancelScheduledValues(t): drop every event with time >= t.
CancelScheduledValues(tl, t) == SelectSeq(tl, LAMBDA e : e.time < t)

InsertEvent(tl, ev) ==
    SelectSeq(tl, LAMBDA e : e.time <= ev.time) \o <<ev>> \o
    SelectSeq(tl, LAMBDA e : e.time > ev.time)

SetValueAtTime(tl, v, t, src) == InsertEvent(tl, AutoEvent(t, v, "set", src))
LinearRampToValueAtTime(tl, v, t, src) == InsertEvent(tl, AutoEvent(t, v, "ramp", src))

\* AudioParam.value read at audio time t (the value of the last rendered
\* quantum): the last event at or before t, interpolated towards a following
\* ramp.  Cancelling future events does not change what has been rendered, so
\* the code's reads of .value right after cancelScheduledValues are taken on
\* the timeline as it was before the cancel.
ValueAt(tl, initial, t) ==
    LET past   == SelectSeq(tl, LAMBDA e : e.time <= t)
        future == SelectSeq(tl, LAMBDA e : e.time > t)
        v0     == IF past = <<>> THEN initial ELSE past[Len(past)].value
        t0     == IF past = <<>> THEN t ELSE past[Len(past)].time
    IN  IF future # <<>> /\ future[1].kind = "ramp" /\ past # <<>>
        THEN v0 + Div((future[1].value - v0) * (t - t0), future[1].time - t0)
        ELSE v0

\* Mutant: the bare operand, without the `|| dflt`.
OrElseNoDefault(x, dflt) == x

\* `x || dflt` of JavaScript on a number
OrElse(x, dflt) == IF x = 0 \/ x = NaN THEN dflt ELSE x

(***************************************************************************)
(* Events and event collections.                                           *)
(***************************************************************************)
Quake(time, mag, lat, depthKm) ==
    [time |-> time, mag |-> mag, lat |-> lat, depthKm |-> depthKm]

\* Three sample events: two timestamps 1 ms apart and a third far later.
Quakes == { Quake(0, 0, -90, 0), Quake(1, 7, 90, 700), Quake(1000, 7, 0, 350) }

\* Every collection of at most n events of Q, in any order, repeats included.
Collections(Q, n) == UNION { [1..m -> Q] : m \in 0..n }

\* The collections of the sessions explored by Spec: an empty one, one of two
\* events with the same timestamp, one whose later event comes first.
Datasets ==
    { <<>>,
      << Quake(0, 0, -90, 0), Quake(0, 0, -90, 0) >>,
      << Quake(1000, 7, 0, 350), Quake(0, 0, -90, 0) >> }

\* The collections of the timeline runs.
ScanDatasets == Collections(Quakes, MaxScanLen)

\* durationSec of the sessions explored by Spec (the option's default is 60).
DurationSec == 2

\* A context is created while audioCtxRef is null: at the first start() and at
\* the first start() after the disposal.
MaxCtx == 2

VARIABLES
    \* ---- inputs of the hook
    data,             \* options.features: [present, features]
    isSupported,      \* "AudioContext" in window
    onEventSupplied,  \* options.onEvent is given
    durationSec,      \* options.durationSec
    clockAdvances,    \* the engine moves ctx.currentTime while a task runs
    \* ---- hook state
    isPlaying,        \* useState isPlaying
    audioCtxRef,      \* audioCtxRef.current: 0 (null) or a context id
    droneRef,         \* droneRef.current: [exists, ctx, oscs, gain, filter, pan, detune]
    endTimeoutRef,    \* endTimeoutRef.current: 0 (null) or a timer id
    transientNodes,   \* transientNodesRef.current
    noiseBufferRef,   \* noiseBufferRef.current is set
    visualTimeouts,   \* visualTimeoutsRef.current: sequence of timer ids
    \* ---- environment
    ctxs,             \* the AudioContexts created: id -> [state, currentTime]
    timers,           \* window timers armed and neither fired nor cleared
    nextTimer,        \* next id window.setTimeout returns
    clock,            \* wall clock, ms
    pendingStarts,    \* start() calls suspended at `await ctx.resume()`
    \* ---- history
    starts,           \* number of start() invocations so far
    stops,            \* number of stop() invocations so far
    cleanStart,       \* the last start() invoked, 0 once stop() or disposal ran after it
    disposes,         \* number of runs of the disposal effect so far
    notified,         \* onEvent invocations, in order: <<start, index>>
    endFired,         \* starts whose end-of-performance timer has fired
    sched,            \* per event of the last scheduling loop: what was computed
    lastOp,           \* the last lifecycle operation ("env": a timer, a tick, ...)
    lastError,        \* the exception the last operation surfaced, or "none"
    \* ---- the page that uses the hook (App.tsx)
    visualEvents,     \* useState visualEvents: indexes of the events handed to onEvent
    isReady,          \* useState isReady of the hook, read by the start button
    \* ---- pure functions
    mapCall           \* the last call of mapRange explored: its arguments and result

inputVars == <<data, isSupported, onEventSupplied, durationSec, clockAdvances>>
hookVars  == <<isPlaying, audioCtxRef, droneRef, endTimeoutRef, transientNodes,
               noiseBufferRef, visualTimeouts>>
envVars   == <<ctxs, timers, nextTimer, clock, pendingStarts>>
histVars  == <<starts, stops, cleanStart, disposes, notified, endFired, sched, lastOp, lastError>>
auxVars   == <<isReady, mapCall>>
vars      == <<inputVars, hookVars, envVars, histVars, visualEvents, auxVars>>

NoMapCall == [called |-> FALSE]

\* The lifecycle calls invoked so far.
Calls == starts + stops + disposes

NoDrone == [exists |-> FALSE, ctx |-> 0, oscs |-> <<>>, gain |-> <<>>,
            filter |-> <<>>, pan |-> <<>>, detune |-> <<>>]

NoCtx == [state |-> "none", currentTime |-> 0]

Init ==
    /\ data = [present |-> FALSE, features |-> <<>>]
    /\ isSupported \in BOOLEAN
    /\ onEventSupplied \in BOOLEAN
    /\ durationSec = DurationSec
    /\ clockAdvances = FALSE
    /\ isPlaying = FALSE
    /\ audioCtxRef = 0
    /\ droneRef = NoDrone
    /\ endTimeoutRef = 0
    /\ transientNodes = {}
    /\ noiseBufferRef = FALSE
    /\ visualTimeouts = <<>>
    /\ ctxs = [c \in 1..MaxCtx |-> NoCtx]
    /\ timers = {}
    /\ nextTimer = 1
    /\ clock = 0
    /\ pendingStarts = <<>>
    /\ starts = 0
    /\ stops = 0
    /\ cleanStart = 0
    /\ disposes = 0
    /\ notified = <<>>
    /\ endFired = {}
    /\ sched = <<>>
    /\ lastOp = "init"
    /\ lastError = "none"
    /\ visualEvents = <<>>
    /\ isReady = FALSE
    /\ mapCall = NoMapCall

(***************************************************************************)
(* Environment helpers.                                                    *)
(***************************************************************************)
\* The audio clock of every running context advances with the wall clock.
AdvanceCtxs(cs, d) ==
    [c \in DOMAIN cs |->
        IF cs[c].state = "running"
        THEN [cs[c] EXCEPT !.currentTime = @ + d] ELSE cs[c]]

\* Mutant: start() and stop() leave the timers armed earlier in place.
ClearTimeoutsNone(tms, ids) == tms

\* window.clearTimeout(id) for every id of ids.
ClearTimeouts(tms, ids) == {t \in tms : t.id \notin ids}

Timer(id, due, kind, k, idx, ctx) ==
    [id |-> id, due |-> due, kind |-> kind, start |-> k, idx |-> idx, ctx |-> ctx]

Src(op, k, idx) == [op |-> op, start |-> k, idx |-> idx]

Node(k, idx, kind, ctx, stopAt) ==
    [start |-> k, idx |-> idx, kind |-> kind, ctx |-> ctx, stopAt |-> stopAt]

(***************************************************************************)
(* ensureDrone                                                             *)
(***************************************************************************)
RunningOsc == [stopCalled |-> FALSE, stopAt |-> 0]

EnsureDrone(ctx) ==
    IF droneRef.exists THEN droneRef
    ELSE [exists |-> TRUE, ctx |-> ctx,
          oscs   |-> [o \in 1..NumOscs |-> RunningOsc],
          gain   |-> <<>>, filter |-> <<>>, pan |-> <<>>,
          detune |-> [o \in 1..NumOscs |-> <<>>]]

(***************************************************************************)
(* The timeline mapping of start().                                        *)
(***************************************************************************)
Times(quakes) == [i \in 1..Len(quakes) |-> quakes[i].time]

\* Math.min(...times), Math.max(...times): a scan of every element.
MinTime(times) == CHOOSE m \in Range(times) : \A x \in Range(times) : m <= x
MaxTime(times) == CHOOSE m \in Range(times) : \A x \in Range(times) : m >= x

\* Mutant: the span taken from the array order, last element minus first.
SpanMsArrayOrder(times) == OrElse(times[Len(times)] - times[1], 1)

\* spanMs = maxTime - minTime || 1
SpanMs(times) == OrElse(MaxTime(times) - MinTime(times), 1)

\* timeScale = spanMs / totalDuration (ms of data per second of audio), as a
\* fraction in lowest terms.
TimeScale(spanMs, dur) ==
    [num |-> spanMs \div Gcd(spanMs, dur), den |-> dur \div Gcd(spanMs, dur)]

\* relMs / timeScale in ms, timeScale = spanMs / totalDuration:
\* relMs * totalDuration * 1000 / spanMs, the fraction reduced first.  A span
\* of 0 makes timeScale 0, and relMs / timeScale, that is 0 / 0, not-a-number.
ScaledMs(relMs, spanMs, dur) ==
    IF spanMs = 0 THEN NaN
    ELSE LET g == Gcd(relMs, spanMs)
         IN  Div((relMs \div g) * (dur * 1000), spanMs \div g)

\* Mutant: the onset without the start offset.
OnsetTimeNoOffset(now, time, minTime, spanMs, dur) ==
    now + ScaledMs(time - minTime, spanMs, dur)

\* t = now + startOffset + relMs / timeScale
OnsetTime(now, time, minTime, spanMs, dur) ==
    now + StartOffsetMs + ScaledMs(time - minTime, spanMs, dur)

\* Mutant: the delay left in seconds, the `* 1000` forgotten.
DelayMsInSeconds(t, currentTime) == Max(0, (t - currentTime) \div 1000)

\* delayMs = Math.max(0, (t - ctx.currentTime) * 1000)
DelayMs(t, currentTime) == Max(0, t - currentTime)

(***************************************************************************)
(* The per-event automation of the drone (start(), steps 1 to 4).          *)
(***************************************************************************)
\* cancel at t, hold the current value (or dflt), ramp to peak, ramp back.
CancelThenRamp(tl, cur, t, peak, peakMs, base, backMs, src) ==
    LinearRampToValueAtTime(
        LinearRampToValueAtTime(
            SetValueAtTime(CancelScheduledValues(tl, t), cur, t, src),
            peak, t + peakMs, src),
        base, t + backMs, src)

PeakGain(mag)     == (BASE_GAIN * MapRange(MagClamped(mag), 0, 7, 105, 200)) \div 100
TargetCutoff(dep) == MapRange(DepthClamped(dep), 0, 700, 9000, 250)
PanTarget(lat)    == MapRange(lat, -90, 90, -1000, 1000)
DetuneTarget(mag) ==
    Div((MapRange(MagClamped(mag), 0, 7, 0, 1000) - 500) * 2 * DetuneRangeCents, 1000)

AutomateDrone(drone, f, t, valueTime, src) ==
    [drone EXCEPT
        !.gain = CancelThenRamp(@,
                    OrElse(ValueAt(@, 0, valueTime), BASE_GAIN),
                    t, PeakGain(f.mag), GainPeakMs, BASE_GAIN, GainBackMs, src),
        !.filter = CancelThenRamp(@,
                    OrElse(ValueAt(@, BaseCutoff, valueTime), BaseCutoff),
                    t, TargetCutoff(f.depthKm), FilterPeakMs, BaseCutoff, FilterBackMs, src),
        !.pan = CancelThenRamp(@,
                    OrElse(ValueAt(@, BasePan, valueTime), BasePan),
                    t, PanTarget(f.lat), PanPeakMs, BasePan, PanBackMs, src),
        !.detune = [o \in 1..NumOscs |->
                    CancelThenRamp(@[o], 0, t, DetuneTarget(f.mag), DetunePeakMs,
                                   0, DetuneBackMs, src)]]

(***************************************************************************)
(* schedulePercussiveHit: the two sources it adds to the live transient    *)
(* set.  Connecting the hit to drone.gain throws InvalidAccessError when   *)
(* the drone belongs to another AudioContext than the one of this start.   *)
(***************************************************************************)
HitThrows(drone, ctx) == drone.ctx # ctx

\* Mutant: only the noise burst is registered, the tonal click is not.
SchedulePercussiveHitNoiseOnly(nodes, k, idx, ctx, t) ==
    nodes \cup { Node(k, idx, "noise", ctx, t + NoiseStopMs) }

SchedulePercussiveHit(nodes, k, idx, ctx, t) ==
    nodes \cup { Node(k, idx, "noise", ctx, t + NoiseStopMs),
                 Node(k, idx, "click", ctx, t + ClickStopMs) }

(***************************************************************************)
(* start(): the part after `await ctx.resume()`.                           *)
(*                                                                         *)
(* ctx.currentTime is read once as `now` and once more per event for the   *)
(* visual delay.  The audio clock advances by render quanta while the      *)
(* loop runs: the reads of iterations qAt and later see one quantum more   *)
(* than `now` (qAt = Len(quakes) + 1: the clock did not advance).          *)
(***************************************************************************)
ReadAt(P, i) == P.now + (IF i >= P.qAt THEN RenderQuantumMs ELSE 0)

SchedEntry(k, idx, time, now, onset, read, delay) ==
    [start |-> k, idx |-> idx, time |-> time, now |-> now, onset |-> onset,
     read |-> read, delay |-> delay]

\* One iteration of `for (const feature of quakes)`.
ScheduleEvent(L, P, i) ==
    LET f     == P.quakes[i]
        t     == OnsetTime(P.now, f.time, P.minTime, P.spanMs, P.dur)
        c     == ReadAt(P, i)
        vt    == IF L.drone.ctx = P.ctx THEN c ELSE P.cs[L.drone.ctx].currentTime
        drone == AutomateDrone(L.drone, f, t, vt, Src("event", P.k, i))
        delay == DelayMs(t, c)
        armed == P.clock + (c - P.now)
    IN  IF HitThrows(drone, P.ctx)
        THEN [L EXCEPT !.drone = drone, !.noise = TRUE, !.threw = TRUE]
        ELSE [L EXCEPT
                !.drone = drone,
                !.noise = TRUE,
                !.nodes = SchedulePercussiveHit(@, P.k, i, P.ctx, t),
                !.tms   = IF P.onEvent
                          THEN @ \cup {Timer(L.nt, armed + delay, "visual", P.k, i, P.ctx)}
                          ELSE @,
                !.vts   = IF P.onEvent THEN Append(@, L.nt) ELSE @,
                !.nt    = IF P.onEvent THEN @ + 1 ELSE @,
                !.sched = Append(@, SchedEntry(P.k, i, f.time, P.now, t, c,
                                               IF P.onEvent THEN delay ELSE 0))]

RECURSIVE ScheduleLoop(_, _, _)
ScheduleLoop(L, P, i) ==
    IF i > Len(P.quakes) \/ L.threw THEN L
    ELSE ScheduleLoop(ScheduleEvent(L, P, i), P, i + 1)

\* Fade in drone: cancel at now, 0 at now, ramp to BASE_GAIN over 3 s.
FadeIn(drone, now, k) ==
    [drone EXCEPT !.gain =
        LinearRampToValueAtTime(
            SetValueAtTime(CancelScheduledValues(@, now), 0, now, Src("fadeIn", k, 0)),
            BASE_GAIN, now + FadeInMs, Src("fadeIn", k, 0))]

\* Mutant: the end timer armed at startOffset, the duration and the tail forgotten.
EndDelayMsNoDuration(dur) == StartOffsetMs + 0 * dur

\* (estimatedEnd - now) * 1000
EndDelayMs(dur) == StartOffsetMs + dur * 1000 + EndTailMs

\* The new values of everything the body of start() writes.
StartBody(cs, ctx, k, qAt) ==
    LET now    == cs[ctx].currentTime
        quakes == data.features
        times  == Times(quakes)
        P == [ctx |-> ctx, k |-> k, now |-> now, quakes |-> quakes,
              minTime |-> MinTime(times), spanMs |-> SpanMs(times),
              dur |-> durationSec, qAt |-> qAt, clock |-> clock, cs |-> cs,
              onEvent |-> onEventSupplied]
        L0 == [drone |-> FadeIn(EnsureDrone(ctx), now, k),
               nodes |-> transientNodes,
               noise |-> noiseBufferRef,
               tms   |-> ClearTimeouts(timers, Range(visualTimeouts)),
               vts   |-> <<>>,
               nt    |-> nextTimer,
               sched |-> <<>>,
               threw |-> FALSE]
        L  == ScheduleLoop(L0, P, 1)
        elapsed == IF qAt <= Len(quakes) /\ ~L.threw THEN RenderQuantumMs ELSE 0
        endId   == L.nt
    IN  IF L.threw
        THEN [drone |-> L.drone, nodes |-> L.nodes, noise |-> L.noise,
              tms |-> L.tms, vts |-> L.vts, nt |-> L.nt, sched |-> L.sched,
              isPlaying |-> isPlaying, endRef |-> endTimeoutRef,
              elapsed |-> 0, error |-> "InvalidAccessError", now |-> now]
        ELSE [drone |-> L.drone, nodes |-> L.nodes, noise |-> L.noise,
              tms |-> ClearTimeouts(L.tms, {endTimeoutRef}) \cup
                      {Timer(endId, clock + elapsed + EndDelayMs(durationSec),
                             "end", k, 0, ctx)},
              vts |-> L.vts, nt |-> endId + 1, sched |-> L.sched,
              isPlaying |-> TRUE, endRef |-> endId,
              elapsed |-> elapsed, error |-> "none", now |-> now]

\* The reads of the audio clock a scheduling loop over n events can see.
QuantumChoices(cs, ctx, n) ==
    IF clockAdvances /\ cs[ctx].state = "running" THEN 1..(n + 1) ELSE {n + 1}

ApplyStartBody(R, cs) ==
    /\ droneRef' = R.drone
    /\ transientNodes' = R.nodes
    /\ noiseBufferRef' = R.noise
    /\ timers' = R.tms
    /\ visualTimeouts' = R.vts
    /\ nextTimer' = R.nt
    /\ sched' = R.sched
    /\ isPlaying' = R.isPlaying
    /\ endTimeoutRef' = R.endRef
    /\ clock' = clock + R.elapsed
    /\ ctxs' = AdvanceCtxs(cs, R.elapsed)
    /\ lastError' = R.error

\* Mutant: getAudioContext without its `if (!isSupported) return null`.
StartReturnsEarlyNoSupportCheck ==
    \/ ~data.present
    \/ Len(data.features) = 0

\* `!features || !features.features.length` and `!ctx`: start() returns at once.
StartReturnsEarly ==
    \/ ~data.present
    \/ Len(data.features) = 0
    \/ ~isSupported

(***************************************************************************)
(* The engine resolves every pending resume() promise of a context in one  *)
(* task, in the order of the calls: the start() calls suspended at the     *)
(* await continue one right after the other, and no other task, timer or   *)
(* click runs until the last of them has run.  A context is running with a *)
(* start() still suspended on it exactly while that task is under way.     *)
(***************************************************************************)
ResumeTaskRunning ==
    /\ pendingStarts # <<>>
    /\ ctxs[Head(pendingStarts).ctx].state = "running"

(***************************************************************************)
(* start(), up to the await.                                               *)
(***************************************************************************)
StartCall ==
    /\ ~ResumeTaskRunning
    /\ Calls < MaxCalls
    /\ starts' = starts + 1
    /\ cleanStart' = starts + 1
    /\ UNCHANGED <<auxVars, inputVars, stops, disposes, notified, endFired>>
    /\ IF StartReturnsEarly
       THEN /\ lastOp' = "startNoop"
            /\ lastError' = "none"
            /\ UNCHANGED <<hookVars, envVars, sched>>
       ELSE \E fresh \in {"suspended", "running"} :
            LET k   == starts + 1
                new == audioCtxRef = 0
                ctx == IF new THEN 1 + Cardinality({c \in 1..MaxCtx : ctxs[c].state # "none"})
                       ELSE audioCtxRef
                cs  == IF new
                       THEN [ctxs EXCEPT ![ctx] = [state |-> fresh, currentTime |-> 0]]
                       ELSE ctxs
            IN  /\ ~new => fresh = cs[ctx].state
                /\ audioCtxRef' = ctx
                /\ lastOp' = IF cs[ctx].state = "suspended" THEN "startAwait" ELSE "start"
                /\ IF cs[ctx].state = "suspended"
                   THEN /\ pendingStarts' = Append(pendingStarts, [start |-> k, ctx |-> ctx])
                        /\ ctxs' = cs
                        /\ lastError' = "none"
                        /\ UNCHANGED <<isPlaying, droneRef, endTimeoutRef, transientNodes,
                                       noiseBufferRef, visualTimeouts, timers, nextTimer,
                                       clock, sched>>
                   ELSE /\ \E qAt \in QuantumChoices(cs, ctx, Len(data.features)) :
                              ApplyStartBody(StartBody(cs, ctx, k, qAt), cs)
                        /\ UNCHANGED pendingStarts

(***************************************************************************)
(* start(), resumed after `await ctx.resume()`.  The promise of resume()   *)
(* settles in the order the calls were made; the context is running then   *)
(* unless it has been closed in the meantime.                              *)
(***************************************************************************)
StartResume ==
    /\ pendingStarts # <<>>
    /\ LET p  == Head(pendingStarts)
           cs == IF ctxs[p.ctx].state = "suspended"
                 THEN [ctxs EXCEPT ![p.ctx].state = "running"] ELSE ctxs
       IN  /\ pendingStarts' = Tail(pendingStarts)
           /\ lastOp' = "resume"
           /\ \E qAt \in QuantumChoices(cs, p.ctx, Len(data.features)) :
                 ApplyStartBody(StartBody(cs, p.ctx, p.start, qAt), cs)
    /\ UNCHANGED <<auxVars, visualEvents, inputVars, audioCtxRef, starts, stops,
                   cleanStart, disposes, notified,
                   endFired>>

(***************************************************************************)
(* stop()                                                                  *)
(***************************************************************************)
\* AudioScheduledSourceNode.stop(when).  An engine of the older API throws
\* InvalidStateError when stop() was already called on the node (legacy);
\* otherwise the last call wins unless the node has already ended.
SourceStop(osc, when, now, legacy) ==
    IF osc.stopCalled /\ legacy
    THEN [osc |-> osc, threw |-> TRUE]
    ELSE IF osc.stopCalled /\ now >= osc.stopAt
    THEN [osc |-> osc, threw |-> FALSE]
    ELSE [osc |-> [stopCalled |-> TRUE, stopAt |-> when], threw |-> FALSE]

\* Mutant: node.stop(...) without the try/catch around it.
NoTryCatch(threw) == IF threw THEN "InvalidStateError" ELSE "none"

\* try { node.stop(...) } catch { /* ignore */ }: what escapes the statement.
TryCatchIgnore(threw) == "none"

\* Fade the drone out and stop its oscillators 2 s ahead.
StopDrone(drone, now, legacy) ==
    [drone EXCEPT
        !.gain = LinearRampToValueAtTime(
                    SetValueAtTime(CancelScheduledValues(@, now),
                                   ValueAt(@, 0, now), now, Src("stop", 0, 0)),
                    0, now + StopFadeMs, Src("stop", 0, 0)),
        !.oscs = [o \in 1..NumOscs |-> SourceStop(@[o], now + OscStopMs, now, legacy).osc]]

\* The first exception that escapes the two stop loops of stop().
StopError(drone, nodes, hasDrone, now, legacy) ==
    IF hasDrone /\ \E o \in 1..NumOscs :
           TryCatchIgnore(SourceStop(drone.oscs[o], now + OscStopMs, now, legacy).threw) # "none"
    THEN "InvalidStateError"
    ELSE IF \E n \in nodes : TryCatchIgnore(legacy) # "none"
    THEN "InvalidStateError"
    ELSE "none"

\* Mutant: stop() clears the visual timers and forgets the end timer.
StopClearsVisualOnly(vts, endRef) == Range(vts) \ {endRef}

\* The timers stop() clears: every recorded visual timer and the end timer.
StopClears(vts, endRef) == Range(vts) \cup {endRef}

\* The new values of everything stop() writes.
StopBody(legacy) ==
    LET hasDrone == audioCtxRef # 0 /\ droneRef.exists
        now      == IF audioCtxRef # 0 THEN ctxs[audioCtxRef].currentTime ELSE 0
        error    == StopError(droneRef, transientNodes, hasDrone, now, legacy)
        drone    == IF hasDrone THEN StopDrone(droneRef, now, legacy) ELSE droneRef
    IN  IF error # "none"
        THEN [drone |-> drone, nodes |-> transientNodes, tms |-> timers,
              vts |-> visualTimeouts, endRef |-> endTimeoutRef,
              isPlaying |-> isPlaying, error |-> error, now |-> now]
        ELSE [drone |-> drone, nodes |-> {},
              tms |-> ClearTimeouts(timers, StopClears(visualTimeouts, endTimeoutRef)),
              vts |-> <<>>, endRef |-> 0,
              isPlaying |-> FALSE, error |-> "none", now |-> now]

Stop ==
    /\ ~ResumeTaskRunning
    /\ Calls < MaxCalls
    /\ stops' = stops + 1
    /\ cleanStart' = 0
    /\ \E legacy \in BOOLEAN :
        LET R == StopBody(legacy)
        IN  /\ droneRef' = R.drone
            /\ transientNodes' = R.nodes
            /\ timers' = R.tms
            /\ visualTimeouts' = R.vts
            /\ endTimeoutRef' = R.endRef
            /\ isPlaying' = R.isPlaying
            /\ lastError' = R.error
            /\ lastOp' = IF lastOp \in {"stop", "stopAgain"} THEN "stopAgain" ELSE "stop"
            /\ UNCHANGED <<auxVars, inputVars, audioCtxRef, noiseBufferRef, ctxs,
                           nextTimer, clock,
                           pendingStarts, starts, disposes, notified, endFired, sched>>

(***************************************************************************)
(* The cleanup of the disposal effect: stop(), close and release.          *)
(***************************************************************************)
\* The effect depends on stop alone, which is memoised for good: its cleanup
\* runs once, at unmount.
Dispose ==
    /\ ~ResumeTaskRunning
    /\ Calls < MaxCalls
    /\ disposes = 0
    /\ disposes' = disposes + 1
    /\ cleanStart' = 0
    /\ \E legacy \in BOOLEAN :
        LET R == StopBody(legacy)
        IN  /\ lastError' = R.error
            /\ lastOp' = "dispose"
            /\ isPlaying' = R.isPlaying
            /\ transientNodes' = R.nodes
            /\ endTimeoutRef' = R.endRef
            /\ IF R.error # "none"
               THEN /\ droneRef' = R.drone
                    /\ timers' = R.tms
                    /\ visualTimeouts' = R.vts
                    /\ UNCHANGED <<audioCtxRef, noiseBufferRef, ctxs>>
               ELSE /\ ctxs' = IF audioCtxRef # 0
                               THEN [ctxs EXCEPT ![audioCtxRef].state = "closed"] ELSE ctxs
                    /\ audioCtxRef' = 0
                    /\ droneRef' = NoDrone
                    /\ noiseBufferRef' = FALSE
                    /\ timers' = ClearTimeouts(R.tms, Range(R.vts))
                    /\ visualTimeouts' = <<>>
    /\ UNCHANGED <<auxVars, visualEvents, inputVars, nextTimer, clock, pendingStarts,
                   starts, stops, notified,
                   endFired, sched>>

(***************************************************************************)
(* The window timers.                                                      *)
(***************************************************************************)
\* The timer the event loop runs next: the earliest due, the oldest first.
NextDue(t) ==
    \A u \in timers : t.due < u.due \/ (t.due = u.due /\ t.id <= u.id)

\* () => { onEvent(feature) }
FireVisualTimer ==
    \E t \in timers :
        /\ ~ResumeTaskRunning
        /\ t.kind = "visual"
        /\ t.due <= clock
        /\ NextDue(t)
        /\ timers' = timers \ {t}
        /\ notified' = Append(notified, <<t.start, t.idx>>)
        /\ visualEvents' = Append(visualEvents, t.idx)
        /\ lastOp' = "env"
        /\ lastError' = "none"
        /\ UNCHANGED <<auxVars, inputVars, hookVars, ctxs, nextTimer, clock, pendingStarts,
                       starts, stops, cleanStart, disposes, endFired, sched>>

\* Mutant: the end-of-performance callback without its fade.
EndFadeNone(drone, ctxNow, k) == drone

\* The end-of-performance callback: fade the drone out, setIsPlaying(false).
EndFade(drone, ctxNow, k) ==
    [drone EXCEPT !.gain =
        LinearRampToValueAtTime(
            SetValueAtTime(CancelScheduledValues(@, ctxNow), ValueAt(@, 0, ctxNow),
                           ctxNow, Src("end", k, 0)),
            0, ctxNow + EndFadeMs, Src("end", k, 0))]

FireEndTimer ==
    \E t \in timers :
        /\ ~ResumeTaskRunning
        /\ t.kind = "end"
        /\ t.due <= clock
        /\ NextDue(t)
        /\ timers' = timers \ {t}
        /\ droneRef' = IF droneRef.exists
                       THEN EndFade(droneRef, ctxs[t.ctx].currentTime, t.start)
                       ELSE droneRef
        /\ isPlaying' = FALSE
        /\ endFired' = endFired \cup {t.start}
        /\ lastOp' = "env"
        /\ lastError' = "none"
        /\ UNCHANGED <<auxVars, visualEvents, inputVars, audioCtxRef, endTimeoutRef,
                       transientNodes,
                       noiseBufferRef, visualTimeouts, ctxs, nextTimer, clock,
                       pendingStarts, starts, stops, cleanStart, disposes, notified, sched>>

(***************************************************************************)
(* The "ended" listener of a transient source: it ends when the audio      *)
(* clock of its context reaches its stop time.                             *)
(***************************************************************************)
HasEnded(n) == ctxs[n.ctx].state = "running" /\ ctxs[n.ctx].currentTime >= n.stopAt

NodeEnded ==
    \E n \in transientNodes :
        /\ ~ResumeTaskRunning
        /\ HasEnded(n)
        /\ \A m \in transientNodes : HasEnded(m) => n.stopAt <= m.stopAt
        /\ transientNodes' = transientNodes \ {n}
        /\ lastOp' = "env"
        /\ lastError' = "none"
        /\ UNCHANGED <<auxVars, visualEvents, inputVars, isPlaying, audioCtxRef,
                       droneRef, endTimeoutRef,
                       noiseBufferRef, visualTimeouts, envVars,
                       starts, stops, cleanStart, disposes, notified, endFired, sched>>

(***************************************************************************)
(* Time passes: up to the next timer that comes due, TickMs at most.       *)
(***************************************************************************)
TickDelta ==
    IF timers = {} THEN TickMs
    ELSE Min(TickMs, (CHOOSE t \in timers : NextDue(t)).due - clock)

Tick ==
    /\ ~ResumeTaskRunning
    /\ \A t \in timers : t.due > clock
    /\ \A n \in transientNodes : ~HasEnded(n)
    /\ timers = {} => clock + TickMs <= MaxClock
    /\ clock' = clock + TickDelta
    /\ ctxs' = AdvanceCtxs(ctxs, TickDelta)
    /\ lastOp' = "env"
    /\ lastError' = "none"
    /\ UNCHANGED <<auxVars, visualEvents, inputVars, hookVars, timers, nextTimer,
                   pendingStarts,
                   starts, stops, cleanStart, disposes, notified, endFired, sched>>

(***************************************************************************)
(* The data source delivers the event collection.                          *)
(***************************************************************************)
LoadData ==
    /\ ~ResumeTaskRunning
    /\ ~data.present
    /\ \E d \in Datasets : data' = [present |-> TRUE, features |-> d]
    /\ lastOp' = "env"
    /\ lastError' = "none"
    /\ UNCHANGED <<auxVars, visualEvents, isSupported, onEventSupplied, durationSec,
                   clockAdvances, hookVars, envVars,
                   starts, stops, cleanStart, disposes, notified, endFired, sched>>

Next ==
    \/ LoadData
    \/ (StartCall /\ UNCHANGED visualEvents)
    \/ StartResume
    \/ (Stop /\ UNCHANGED visualEvents)
    \/ Dispose
    \/ FireVisualTimer
    \/ FireEndTimer
    \/ NodeEnded
    \/ Tick

Spec == Init /\ [][Next]_vars

(***************************************************************************)
(* The timeline runs: a loaded collection of up to MaxScanLen events is    *)
(* started once and played to its end, on an engine whose audio clock      *)
(* advances while the scheduling loop runs.                                *)
(***************************************************************************)
TimelineInit ==
    /\ data \in [present : {TRUE}, features : ScanDatasets]
    /\ isSupported = TRUE
    /\ onEventSupplied = TRUE
    /\ durationSec = DurationSec
    /\ clockAdvances = TRUE
    /\ isPlaying = FALSE
    /\ audioCtxRef = 0
    /\ droneRef = NoDrone
    /\ endTimeoutRef = 0
    /\ transientNodes = {}
    /\ noiseBufferRef = FALSE
    /\ visualTimeouts = <<>>
    /\ ctxs = [c \in 1..MaxCtx |-> NoCtx]
    /\ timers = {}
    /\ nextTimer = 1
    /\ clock = 0
    /\ pendingStarts = <<>>
    /\ starts = 0
    /\ stops = 0
    /\ cleanStart = 0
    /\ disposes = 0
    /\ notified = <<>>
    /\ endFired = {}
    /\ sched = <<>>
    /\ lastOp = "init"
    /\ lastError = "none"
    /\ visualEvents = <<>>
    /\ isReady = FALSE
    /\ mapCall = NoMapCall

TimelineNext ==
    \/ (starts = 0 /\ StartCall /\ UNCHANGED visualEvents)
    \/ StartResume
    \/ FireVisualTimer
    \/ FireEndTimer
    \/ NodeEnded
    \/ Tick

TimelineSpec == TimelineInit /\ [][TimelineNext]_vars

(***************************************************************************)
(* The hour-apart scenario: three events one hour apart, in any array      *)
(* order, played once with the default durationSec of 60, on an engine     *)
(* whose audio clock advances while the scheduling loop runs.              *)
(***************************************************************************)
\* durationSec = 60, the default of the option and the value App passes.
DefaultDurationSec == 60

ScenarioEvents ==
    LET t0 == 1000000
    IN  { Quake(t0, 2, -45, 10),
          Quake(t0 + 3600000, 5, 0, 300),
          Quake(t0 + 7200000, 7, 60, 650) }

ScenarioDatasets ==
    { d \in [1..3 -> ScenarioEvents] : \A i, j \in 1..3 : d[i] = d[j] => i = j }

ScenarioInit ==
    /\ data \in [present : {TRUE}, features : ScenarioDatasets]
    /\ isSupported = TRUE
    /\ onEventSupplied = TRUE
    /\ durationSec = DefaultDurationSec
    /\ clockAdvances = TRUE
    /\ isPlaying = FALSE
    /\ audioCtxRef = 0
    /\ droneRef = NoDrone
    /\ endTimeoutRef = 0
    /\ transientNodes = {}
    /\ noiseBufferRef = FALSE
    /\ visualTimeouts = <<>>
    /\ ctxs = [c \in 1..MaxCtx |-> NoCtx]
    /\ timers = {}
    /\ nextTimer = 1
    /\ clock = 0
    /\ pendingStarts = <<>>
    /\ starts = 0
    /\ stops = 0
    /\ cleanStart = 0
    /\ disposes = 0
    /\ notified = <<>>
    /\ endFired = {}
    /\ sched = <<>>
    /\ lastOp = "init"
    /\ lastError = "none"
    /\ visualEvents = <<>>
    /\ isReady = FALSE
    /\ mapCall = NoMapCall

ScenarioSpec == ScenarioInit /\ [][TimelineNext]_vars

(***************************************************************************)
(* The page (App.tsx): the hook driven through the two buttons, with the   *)
(* page's onEvent, while the page stays mounted.                           *)
(***************************************************************************)
\* useEffect(() => { if (isSupported) setIsReady(true) }, [isSupported])
ReadyEffect ==
    /\ ~ResumeTaskRunning
    /\ isSupported
    /\ ~isReady
    /\ isReady' = TRUE
    /\ UNCHANGED <<inputVars, hookVars, envVars, histVars, visualEvents, mapCall>>

\* Mutant: the Play button stays enabled while a performance is playing.
StartDisabledIgnoresPlaying == ~isSupported \/ ~isReady \/ ~data.present

\* disabled={!isSupported || !isReady || !data || isPlaying}
StartDisabled == ~isSupported \/ ~isReady \/ ~data.present \/ isPlaying

\* The Play button: setVisualEvents([]), then handleStart, which clears the
\* list again and calls start().
HandleStart ==
    /\ ~StartDisabled
    /\ visualEvents' = <<>>
    /\ StartCall

\* The Stop button, rendered while isPlaying: stop(), then setVisualEvents([]).
HandleStop ==
    /\ isPlaying
    /\ Stop
    /\ visualEvents' = <<>>

AppInit ==
    /\ data = [present |-> FALSE, features |-> <<>>]
    /\ isSupported \in BOOLEAN
    /\ onEventSupplied = TRUE
    /\ durationSec = DurationSec
    /\ clockAdvances = FALSE
    /\ isPlaying = FALSE
    /\ audioCtxRef = 0
    /\ droneRef = NoDrone
    /\ endTimeoutRef = 0
    /\ transientNodes = {}
    /\ noiseBufferRef = FALSE
    /\ visualTimeouts = <<>>
    /\ ctxs = [c \in 1..MaxCtx |-> NoCtx]
    /\ timers = {}
    /\ nextTimer = 1
    /\ clock = 0
    /\ pendingStarts = <<>>
    /\ starts = 0
    /\ stops = 0
    /\ cleanStart = 0
    /\ disposes = 0
    /\ notified = <<>>
    /\ endFired = {}
    /\ sched = <<>>
    /\ lastOp = "init"
    /\ lastError = "none"
    /\ visualEvents = <<>>
    /\ isReady = FALSE
    /\ mapCall = NoMapCall

AppNext ==
    \/ ReadyEffect
    \/ LoadData
    \/ HandleStart
    \/ StartResume
    \/ HandleStop
    \/ FireVisualTimer
    \/ FireEndTimer
    \/ NodeEnded
    \/ Tick

AppSpec == AppInit /\ [][AppNext]_vars

(***************************************************************************)
(* mapRange on its own: the function applied to arguments drawn from the   *)
(* values below, the hook untouched.                                       *)
(***************************************************************************)
MapValues == {NaN, -5, 0, 3, 5, 10, 15}
MapIns    == {0, 4, 10}
MapOuts   == {-1000, 0, 100, 250, 9000}

MapRangeCall ==
    /\ ~mapCall.called
    /\ \E value \in MapValues, inMin \in MapIns, inMax \in MapIns,
          outMin \in MapOuts, outMax \in MapOuts :
          mapCall' = [called |-> TRUE, value |-> value, inMin |-> inMin,
                      inMax |-> inMax, outMin |-> outMin, outMax |-> outMax,
                      result |-> MapRange(value, inMin, inMax, outMin, outMax)]
    /\ UNCHANGED <<inputVars, hookVars, envVars, histVars, visualEvents, isReady>>

MapRangeSpec == Init /\ [][MapRangeCall]_vars

(***************************************************************************)
(* The timeline runs under the scheduling of the browser: a timer that is  *)
(* due runs, an ended source dispatches its event, and time passes.        *)
(* Nothing obliges the user to call start().                               *)
(***************************************************************************)
TimelineFairness ==
    /\ WF_vars(FireVisualTimer)
    /\ WF_vars(FireEndTimer)
    /\ WF_vars(NodeEnded)
    /\ WF_vars(Tick)

TimelineLiveSpec == TimelineInit /\ [][TimelineNext]_vars /\ TimelineFairness

(***************************************************************************)
(* Properties                                                              *)
(***************************************************************************)
\* How often onEvent was invoked for event idx of start k.
Notifications(k, idx) ==
    Cardinality({n \in 1..Len(notified) : notified[n] = <<k, idx>>})

\* stop() or the disposal effect was the last lifecycle call invoked.
Quiet == cleanStart = 0 /\ (stops > 0 \/ disposes > 0)

DroneTimelines ==
    {droneRef.gain, droneRef.filter, droneRef.pan} \cup Range(droneRef.detune)

\* The audio time the lifecycle controller reads (audioCtxRef.current.currentTime).
AudioNow == ctxs[audioCtxRef].currentTime

\* C1: when the end-of-performance timer of a start() over a non-empty
\* collection with onEvent supplied has fired, with no stop() and no further
\* start() invoked since that start() and no disposal before the timer fired,
\* onEvent has been invoked exactly once for every event of the collection
\* (duplicate timestamps included) and for nothing else.
C1_OnEventOncePerEvent ==
    \A k \in endFired :
        (cleanStart = k /\ disposes = 0 /\ onEventSupplied) =>
            /\ \A idx \in 1..Len(data.features) : Notifications(k, idx) = 1
            /\ \A n \in 1..Len(notified) :
                  notified[n][1] = k => notified[n][2] \in 1..Len(data.features)

\* C1 witness: an undisturbed performance of two events with the same
\* timestamp has ended, and each event was notified once.
C1_Witness ==
    \E k \in endFired :
        /\ cleanStart = k
        /\ disposes = 0
        /\ onEventSupplied
        /\ Len(data.features) = 2
        /\ data.features[1].time = data.features[2].time
        /\ Notifications(k, 1) = 1
        /\ Notifications(k, 2) = 1

\* C2: after stop() has returned and until the next start() is invoked, no
\* onEvent callback is invoked and no end-of-performance timer fires.
C2_NoCallbackAfterStop ==
    [][Quiet => (notified' = notified /\ endFired' = endFired)]_vars

\* C3: immediately after stop() at audio time now, no automated parameter of
\* the drone holds a per-event automation entry later than now, and the only
\* entries later than now are those of the gain fade of stop().
C3_StopCancelsAllAutomation ==
    (lastOp \in {"stop", "stopAgain"} /\ audioCtxRef # 0 /\ droneRef.exists) =>
        \A tl \in DroneTimelines : \A i \in 1..Len(tl) :
            tl[i].time > AudioNow => (tl[i].src.op = "stop" /\ tl = droneRef.gain)

\* C4: the oscillators of the drone are never stopped before disposal: while
\* the drone exists no oscillator has a stop scheduled, so a start() after a
\* stop() reuses a drone whose three oscillators are running.
C4_OscillatorsNeverStopped ==
    droneRef.exists => \A o \in 1..NumOscs : ~droneRef.oscs[o].stopCalled

\* C5 (as stated, for a session in which neither stop() nor disposal ran):
\* whenever isPlaying is false the recorded timer handles, visualTimeoutsRef
\* and endTimeoutRef, are empty, also after the end-of-performance timer has
\* fired on its own.
C5_HandlesEmptyWhenNotPlaying ==
    (~isPlaying /\ stops = 0 /\ disposes = 0) =>
        (visualTimeouts = <<>> /\ endTimeoutRef = 0)

\* C5 (amended): whenever isPlaying is false no timer is armed and unfired;
\* right after stop() and after disposal the recorded handles are empty too.
C5_NoPendingTimerWhenNotPlaying ==
    /\ ~isPlaying => timers = {}
    /\ lastOp \in {"stop", "stopAgain", "dispose"} =>
          (visualTimeouts = <<>> /\ endTimeoutRef = 0 /\ timers = {})

\* C5 witness: an end-of-performance timer has fired on its own; nothing is
\* pending, and the handles of the fired timers are still recorded.
C5_Witness ==
    /\ endFired # {}
    /\ ~isPlaying
    /\ timers = {}
    /\ visualTimeouts # <<>>
    /\ endTimeoutRef # 0

\* C6: once stop() or disposal was the last lifecycle call invoked and no
\* start() is suspended at the resume await any more, the session is idle:
\* isPlaying is false and no timer is pending.
C6_StopAlwaysReturnsToIdle ==
    (Quiet /\ pendingStarts = <<>>) => (~isPlaying /\ timers = {})

\* C7: a start() invoked after disposal creates no audio context and no
\* drone, suspends on nothing, arms no timer and leaves isPlaying as it was.
C7_NoRestartAfterDispose ==
    [][(disposes > 0 /\ starts' # starts) =>
          UNCHANGED <<audioCtxRef, ctxs, droneRef, timers, pendingStarts, isPlaying>>]_vars

\* C8: every stop(), whether before any start(), when idle or right after
\* another stop(), surfaces no error and leaves isPlaying false, the live
\* transient set empty and no timer pending or recorded.
C8_StopIdempotent ==
    lastOp \in {"stop", "stopAgain"} =>
        /\ lastError = "none"
        /\ ~isPlaying
        /\ transientNodes = {}
        /\ timers = {}
        /\ visualTimeouts = <<>>
        /\ endTimeoutRef = 0

\* C8 witness: stop() ran twice in a row on a session with a drone, so the
\* second call stopped oscillators that had already been stopped.
C8_Witness ==
    /\ lastOp = "stopAgain"
    /\ droneRef.exists
    /\ audioCtxRef # 0
    /\ \A o \in 1..NumOscs : droneRef.oscs[o].stopCalled

\* C9: a start() with no collection, an empty collection or no audio support
\* surfaces no error and changes nothing of the hook's state: isPlaying, the
\* context, the drone, the transient set and the timers.
C9_StartNoOp ==
    [][(starts' # starts /\ (~data.present \/ Len(data.features) = 0 \/ ~isSupported)) =>
          (UNCHANGED <<hookVars, envVars>> /\ lastError' = "none")]_vars

\* C9 witness: start() returned at once although the collection was loaded
\* and non-empty, because the audio subsystem is unavailable.
C9_Witness ==
    /\ lastOp = "startNoop"
    /\ ~isSupported
    /\ data.present
    /\ Len(data.features) > 0

\* C10 (as stated): of two events of one start(), the one with the smaller
\* timestamp has the earlier-or-equal onset and the smaller-or-equal delay.
C10_OnsetAndDelayOrdered ==
    \A i, j \in 1..Len(sched) :
        sched[i].time < sched[j].time =>
            (sched[i].onset <= sched[j].onset /\ sched[i].delay <= sched[j].delay)

\* C10 (amended): the onsets are ordered by timestamp whatever the array
\* order; A's delay exceeds B's by no more than the audio clock advanced
\* between the read taken for A's delay and the read taken for B's.
C10_OnsetOrderedDelayWithinDrift ==
    \A i, j \in 1..Len(sched) :
        sched[i].time < sched[j].time =>
            /\ sched[i].onset <= sched[j].onset
            /\ sched[i].delay <= sched[j].delay + Max(0, sched[j].read - sched[i].read)

\* C10 witness: the later event came first in the array, and the audio clock
\* advanced between the two delay computations.
C10_Witness ==
    \E i, j \in 1..Len(sched) :
        /\ i > j
        /\ sched[i].time < sched[j].time
        /\ sched[i].onset < sched[j].onset
        /\ sched[i].read > sched[j].read

\* The event of the collection onEvent was invoked with at its n-th invocation.
NotifiedEvent(n) == data.features[notified[n][2]]

\* The entry of the last scheduling loop for the event at array index idx.
SchedOf(idx) == CHOOSE e \in Range(sched) : e.idx = idx

\* 0.5 s, 30.5 s and 60.5 s for the first, second and third hour.
ScenarioOffsetMs(time) ==
    LET first == MinTime(Times(data.features))
    IN  CASE time = first           -> 500
          [] time = first + 3600000 -> 30500
          [] time = first + 7200000 -> 60500

ScenarioState ==
    /\ TimeScale(SpanMs(Times(data.features)), durationSec) = [num |-> 120000, den |-> 1]
    /\ \A i \in 1..Len(sched) :
          sched[i].onset = sched[i].now + ScenarioOffsetMs(sched[i].time)
    /\ \A m, n \in 1..Len(notified) :
          m < n => NotifiedEvent(m).time < NotifiedEvent(n).time
    /\ endFired # {} => Len(notified) = 3

\* C11: in the hour-apart scenario the time scale is 120000 ms per second,
\* the onsets are 0.5 s, 30.5 s and 60.5 s after the audio-clock time read at
\* start, and onEvent is invoked three times, in timestamp order, each time
\* when the audio clock stands at the event's onset.
C11_HourApartScenario ==
    [][/\ ScenarioState'
       /\ notified' # notified =>
              ctxs[audioCtxRef].currentTime =
                  SchedOf(notified'[Len(notified')][2]).onset]_vars

\* C11 witness: the performance of a collection given latest event first has
\* ended, all three events notified, and the audio clock advanced in the loop.
C11_Witness ==
    /\ durationSec = DefaultDurationSec
    /\ endFired # {}
    /\ Len(notified) = 3
    /\ data.features[1].time > data.features[2].time
    /\ data.features[2].time > data.features[3].time
    /\ \E i \in 1..Len(sched) : sched[i].read > sched[i].now

\* Every event of the collection has the same timestamp.
SameTimestamp == \A i, j \in 1..Len(data.features) :
                    data.features[i].time = data.features[j].time

\* C12: when every event of the collection has the same timestamp (a single
\* event included), the span is taken as 1, not 0, and every event scheduled
\* has its onset at the audio time read at start plus startOffset (0.5 s).
C12_DegenerateSpan ==
    (sched # <<>> /\ SameTimestamp) =>
        /\ SpanMs(Times(data.features)) = 1
        /\ \A i \in 1..Len(sched) : sched[i].onset = sched[i].now + StartOffsetMs

\* C12 witness: three events with one timestamp were scheduled, and all three
\* onsets coincide.
C12_Witness ==
    /\ Len(data.features) = 3
    /\ SameTimestamp
    /\ Len(sched) = 3
    /\ \A i \in 1..3 : sched[i].onset = sched[1].onset

\* C13: for every event scheduled, the delay armed for its onEvent timer is
\* max(0, onset - audio clock read at arming), the audio clock read at arming
\* plus the delay is the event's onset, and while the timer is pending it is
\* due when the audio clock reaches that onset.
C13_VisualAudioSynchrony ==
    /\ \A i \in 1..Len(sched) :
          /\ sched[i].delay = Max(0, sched[i].onset - sched[i].read)
          /\ sched[i].read + sched[i].delay = sched[i].onset
    /\ \A t \in timers :
          t.kind = "visual" =>
              t.due - clock = SchedOf(t.idx).onset - ctxs[t.ctx].currentTime

\* C13 witness: the timer of the second event of three was armed after the
\* audio clock had advanced, with a delay shorter than onset - now, and is
\* pending.
C13_Witness ==
    /\ Len(sched) = 3
    /\ sched[2].read > sched[2].now
    /\ sched[2].delay < sched[2].onset - sched[2].now
    /\ \E t \in timers : t.kind = "visual" /\ t.idx = 2

EndTimers(tms) == {t \in tms : t.kind = "end"}

\* The body of start() has just run to its end.
StartScheduled == lastOp \in {"start", "resume"} /\ lastError = "none"

\* One end timer is armed, due startOffset + durationSec + 3 s from now.
EndTimerArmed ==
    /\ isPlaying
    /\ Cardinality(EndTimers(timers)) = 1
    /\ \A t \in EndTimers(timers) :
          /\ t.id = endTimeoutRef
          /\ t.due = clock + StartOffsetMs + durationSec * 1000 + EndTailMs

\* Every event of the collection has been notified and no onEvent timer is
\* pending.
AllNotified ==
    /\ \A t \in timers : t.kind # "visual"
    /\ \A idx \in 1..Len(data.features) : Notifications(cleanStart, idx) = 1

\* The end-of-performance callback has just run: isPlaying is false and the
\* gain timeline ends with the value held at the audio time of the callback
\* and a ramp to 0 ending 3 s later.
EndTimerEffect ==
    LET g      == droneRef.gain
        n      == Len(g)
        ctxNow == ctxs[audioCtxRef].currentTime
    IN  /\ endFired # {}
        /\ ~isPlaying
        /\ n >= 2
        /\ g[n - 1].kind = "set" /\ g[n - 1].time = ctxNow
        /\ g[n].kind = "ramp" /\ g[n].time = ctxNow + EndFadeMs /\ g[n].value = 0

\* C14: a start() that schedules events arms one end-of-performance timer,
\* due startOffset + durationSec + 3 s later; undisturbed, the timer fires
\* eventually, after every onEvent timer of the start, fades the master gain
\* to 0 over 3 s and sets isPlaying false.
C14_EndOfPerformance ==
    /\ [](StartScheduled => EndTimerArmed)
    /\ [](endFired # {} => AllNotified /\ ~isPlaying)
    /\ (EndTimers(timers) # {}) ~> EndTimerEffect

\* C14 witness: the end timer of a performance of three events has fired;
\* the gain timeline ends with the ramp to 0 laid by the callback.
C14_Witness ==
    /\ endFired # {}
    /\ ~isPlaying
    /\ Len(data.features) = 3
    /\ Len(notified) = 3
    /\ droneRef.exists
    /\ droneRef.gain # <<>>
    /\ droneRef.gain[Len(droneRef.gain)].src.op = "end"
    /\ droneRef.gain[Len(droneRef.gain)].value = 0

\* The arguments of the last mapRange call explored.
MapArgs == <<mapCall.value, mapCall.inMin, mapCall.inMax, mapCall.outMin, mapCall.outMax>>

\* C15: mapRange returns outMin for a NaN value and for inMin = inMax; for
\* inMin < inMax the result lies between min(outMin, outMax) and
\* max(outMin, outMax) and is the linear interpolation of the value clamped to
\* [inMin, inMax] (floored to the unit of the model); mapRange(-5,0,10,0,100)
\* is 0, mapRange(15,0,10,0,100) is 100 and mapRange(5,0,10,0,100) is 50.
C15_MapRangeClamped ==
    mapCall.called =>
        LET c       == mapCall
            clamped == Min(c.inMax, Max(c.inMin, c.value))
            exact   == (clamped - c.inMin) * (c.outMax - c.outMin)
            got     == (c.result - c.outMin) * (c.inMax - c.inMin)
        IN  /\ c.value = NaN => c.result = c.outMin
            /\ c.inMin = c.inMax => c.result = c.outMin
            /\ (c.value # NaN /\ c.inMin < c.inMax) =>
                  /\ c.result >= Min(c.outMin, c.outMax)
                  /\ c.result <= Max(c.outMin, c.outMax)
                  /\ got <= exact
                  /\ exact < got + (c.inMax - c.inMin)
            /\ MapArgs = <<-5, 0, 10, 0, 100>> => c.result = 0
            /\ MapArgs = <<15, 0, 10, 0, 100>> => c.result = 100
            /\ MapArgs = <<5, 0, 10, 0, 100>> => c.result = 50

\* C15 witness: a value above the input range mapped onto a descending output
\* range comes out at the lower end, outMax.
C15_Witness ==
    /\ mapCall.called
    /\ MapArgs = <<15, 0, 10, 9000, 250>>
    /\ mapCall.result = 250

\* C16: start() is invoked from the page only when audio is supported and
\* ready, the data has arrived and isPlaying is false; every start and every
\* stop empties the visual event list; and from a stop until the next start
\* the list stays empty.
C16_ShellControls ==
    [][/\ starts' # starts =>
             (isSupported /\ isReady /\ data.present /\ ~isPlaying)
       /\ (starts' # starts \/ stops' # stops) => visualEvents' = <<>>
       /\ (cleanStart' = 0 /\ stops' > 0) => visualEvents' = <<>>]_vars

\* C16 witness: the Stop button was pressed while a performance started from
\* the Play button was playing and the page had been handed an event; the
\* visual event list is empty.
C16_Witness ==
    /\ isReady
    /\ starts = 1
    /\ stops = 1
    /\ notified # <<>>
    /\ lastOp = "stop"
    /\ ~isPlaying
    /\ visualEvents = <<>>

\* The timeline tl holds the ramp to value at time laid down by src.
HasRamp(tl, time, value, src) ==
    \E n \in 1..Len(tl) :
        tl[n].kind = "ramp" /\ tl[n].time = time /\ tl[n].value = value /\ tl[n].src = src

\* The four ramps to the targets of the event of entry e are on the timelines.
KeepsItsRamps(e) ==
    LET f   == data.features[e.idx]
        src == Src("event", e.start, e.idx)
    IN  /\ HasRamp(droneRef.gain, e.onset + GainPeakMs, PeakGain(f.mag), src)
        /\ HasRamp(droneRef.filter, e.onset + FilterPeakMs, TargetCutoff(f.depthKm), src)
        /\ HasRamp(droneRef.pan, e.onset + PanPeakMs, PanTarget(f.lat), src)
        /\ \A o \in 1..NumOscs :
              HasRamp(droneRef.detune[o], e.onset + DetunePeakMs, DetuneTarget(f.mag), src)

\* C17: right after start() has scheduled all events, whatever their order in
\* the array, the gain, filter, pan and detune timelines of the drone hold,
\* for every event, that event's ramp to its target value.
C17_EveryEventKeepsItsRamps ==
    (StartScheduled /\ droneRef.exists) =>
        \A i \in 1..Len(sched) : KeepsItsRamps(sched[i])

\* C18: right after start() has finished scheduling at audio time now, the
\* gain timeline holds the value 0 set at now and the linear ramp to BASE_GAIN
\* ending at now + 3 s, both laid down by the fade-in of that start().
C18_FadeInRampKept ==
    (StartScheduled /\ droneRef.exists /\ sched # <<>>) =>
        LET k   == sched[1].start
            now == sched[1].now
        IN  /\ \E n \in 1..Len(droneRef.gain) :
                  /\ droneRef.gain[n].kind = "set"
                  /\ droneRef.gain[n].time = now
                  /\ droneRef.gain[n].value = 0
                  /\ droneRef.gain[n].src = Src("fadeIn", k, 0)
            /\ HasRamp(droneRef.gain, now + FadeInMs, BASE_GAIN, Src("fadeIn", k, 0))

\* The sources a hit registers for the scheduled event of entry e.
HitSources(e, added) == {n \in added : n.start = e.start /\ n.idx = e.idx}

\* C19 as stated: in every reachable state no source of the live transient
\* set has ended, and the set is empty right after stop().
C19_NoEndedSourceInSet ==
    /\ \A n \in transientNodes : ~HasEnded(n)
    /\ lastOp \in {"stop", "stopAgain"} => transientNodes = {}

\* C19: a start() that schedules adds to the live transient set exactly two
\* sources per scheduled event, one noise burst and one tonal click, and
\* removes none; a source leaves the set only when its ended listener runs,
\* which is after it has ended, or when stop() or the disposal clears the
\* set; and the set is empty right after stop().
C19_LiveTransientSet ==
    [][/\ lastOp' \in {"start", "resume"} =>
             LET added == transientNodes' \ transientNodes
             IN  /\ transientNodes \subseteq transientNodes'
                 /\ Cardinality(added) = 2 * Len(sched')
                 /\ \A i \in 1..Len(sched') :
                       {n.kind : n \in HitSources(sched'[i], added)} = {"noise", "click"}
       /\ lastOp' \notin {"stop", "stopAgain", "dispose"} =>
             \A n \in transientNodes \ transientNodes' : HasEnded(n)
       /\ lastOp' \in {"stop", "stopAgain"} => transientNodes' = {}]_vars

\* C19 witness: stop() called right after start() has scheduled two events,
\* before any time has passed, has emptied the set of its four sources.
C19_Witness ==
    /\ lastOp = "stop"
    /\ Len(sched) = 2
    /\ notified = <<>>
    /\ clock = 0
    /\ starts = 1
    /\ transientNodes = {}

\* The visual-notification timers among tms.
VisualTimers(tms) == {t \in tms : t.kind = "visual"}

\* C20: at most one end-of-performance timer is pending, and every pending
\* visual-notification timer was armed by the start() that ran the last
\* scheduling loop: the timers of an earlier start() are gone once a later
\* one has begun scheduling.  Between tasks, on a page that has not been
\* disposed, that start() is the most recent one invoked.
C20_TimersOfLatestStartOnly ==
    /\ Cardinality(EndTimers(timers)) <= 1
    /\ \A t \in VisualTimers(timers) : sched # <<>> /\ t.start = sched[1].start
    /\ (~ResumeTaskRunning /\ disposes = 0) =>
          \A t \in VisualTimers(timers) : t.start = starts

\* C20 witness: a second start() was issued while the first performance was
\* playing and had notified an event; the pending timers are those of the
\* second start().
C20_Witness ==
    /\ starts = 2
    /\ stops = 0
    /\ disposes = 0
    /\ \E i \in 1..Len(notified) : notified[i][1] = 1
    /\ VisualTimers(timers) # {}
    /\ \A t \in timers : t.start = 2
    /\ EndTimers(timers) # {}

====
